---- MODULE Spec2Model ----
(***************************************************************************)
(* A model of the chess rules engine of src/chessV5_GUI.cpp: the class     *)
(* ChessGame (board, side to move, en-passant tracking, halfmove clock,    *)
(* repetition table, undo/redo snapshot stacks, move log with cursor) and  *)
(* the command loop ChessGame::play that drives it.                        *)
(***************************************************************************)
EXTENDS Integers, Sequences, FiniteSets, TLC

(***************************************************************************)
(* enum PieceType, enum Color (lines 12-13)                                *)
(***************************************************************************)
EMPTY == 0
PAWN == 1
KNIGHT == 2
BISHOP == 3
ROOK == 4
QUEEN == 5
KING == 6

NONE == 0
WHITE == 1
BLACK == 2

\* Piece() and Piece(t, c): hasMoved starts false.
NoPiece == [type |-> EMPTY, color |-> NONE, hasMoved |-> FALSE]

Piece(t, c) == [type |-> t, color |-> c, hasMoved |-> FALSE]

\* Move(): promotion EMPTY, both flags false.
Move(fr, fc, tr, tc) ==
  [fromRow |-> fr, fromCol |-> fc, toRow |-> tr, toCol |-> tc,
   promotion |-> EMPTY, isEnPassant |-> FALSE, isCastling |-> FALSE]

Abs(x) == IF x < 0 THEN -x ELSE x

Sign(x) == IF x > 0 THEN 1 ELSE IF x < 0 THEN -1 ELSE 0

Max(a, b) == IF a > b THEN a ELSE b

(***************************************************************************)
(* setupBoard: rows 0/1 black, rows 6/7 white.                             *)
(***************************************************************************)
back == <<ROOK, KNIGHT, BISHOP, QUEEN, KING, BISHOP, KNIGHT, ROOK>>

setupBoard ==
  [r \in 0..7 |-> [c \in 0..7 |->
     CASE r = 0 -> Piece(back[c + 1], BLACK)
       [] r = 1 -> Piece(PAWN, BLACK)
       [] r = 6 -> Piece(PAWN, WHITE)
       [] r = 7 -> Piece(back[c + 1], WHITE)
       [] OTHER -> NoPiece]]

opponent(c) == IF c = WHITE THEN BLACK ELSE WHITE

isValid(r, c) == r >= 0 /\ r < 8 /\ c >= 0 /\ c < 8

(***************************************************************************)
(* findKing: the first king of color c in row-major order is written to    *)
(* the caller's kr, kc; when there is no such king nothing is assigned and  *)
(* kr, kc stay what they were.  The result is <<kr, kc>> after the call.    *)
(***************************************************************************)
findKing(s, c, kr, kc) ==
  LET ks == {i \in 0..63 : s.board[i \div 8][i % 8].type = KING
                           /\ s.board[i \div 8][i % 8].color = c}
  IN IF ks = {} THEN <<kr, kc>>
     ELSE LET i == CHOOSE k \in ks : \A j \in ks : k <= j
          IN <<i \div 8, i % 8>>

(***************************************************************************)
(* canPieceMoveTo: the movement pattern of the piece on (fr, fc); in raw   *)
(* mode (ignoreCheck) the castling branch is skipped.  The castling branch *)
(* calls isSquareAttacked, which calls canPieceMoveTo in raw mode only.    *)
(***************************************************************************)
RECURSIVE canPieceMoveTo(_, _, _, _, _, _)

isSquareAttacked(s, tr, tc, by) ==
  \E r \in 0..7 : \E c \in 0..7 :
    LET p == s.board[r][c] IN
    /\ p.color = by
    /\ IF p.type = PAWN
       THEN LET dir == IF by = WHITE THEN -1 ELSE 1
            IN r + dir = tr /\ Abs(c - tc) = 1
       ELSE canPieceMoveTo(s, r, c, tr, tc, TRUE)

\* The castling branch that asks only about the king's square and its
\* destination, not about the square the king passes over.
castlingClearButTransit(s, fr, fc, tr, tc) ==
  LET p == s.board[fr][fc]
      rookCol == IF tc - fc > 0 THEN 7 ELSE 0
      step == IF tc - fc > 0 THEN 1 ELSE -1
  IN /\ s.board[fr][rookCol].type = ROOK
     /\ ~s.board[fr][rookCol].hasMoved
     /\ \A c \in 0..7 :
          ((c - fc) * step > 0 /\ (rookCol - c) * step > 0)
            => s.board[fr][c].type = EMPTY
     /\ ~isSquareAttacked(s, fr, fc, opponent(p.color))
     /\ ~isSquareAttacked(s, tr, tc, opponent(p.color))

\* The body of the castling branch of canPieceMoveTo, for an unmoved king on
\* (fr, fc) asked to go two columns to (tr, tc) in its row: an unmoved rook
\* in the corner, nothing between king and rook, and the king's square, the
\* next one and the destination not attacked.
castlingClear(s, fr, fc, tr, tc) ==
  LET p == s.board[fr][fc]
      rookCol == IF tc - fc > 0 THEN 7 ELSE 0
      step == IF tc - fc > 0 THEN 1 ELSE -1
  IN /\ s.board[fr][rookCol].type = ROOK
     /\ ~s.board[fr][rookCol].hasMoved
     /\ \A c \in 0..7 :
          ((c - fc) * step > 0 /\ (rookCol - c) * step > 0)
            => s.board[fr][c].type = EMPTY
     /\ ~isSquareAttacked(s, fr, fc, opponent(p.color))
     /\ ~isSquareAttacked(s, fr, fc + step, opponent(p.color))
     /\ ~isSquareAttacked(s, tr, tc, opponent(p.color))

canPieceMoveTo(s, fr, fc, tr, tc, ignoreCheck) ==
  LET p == s.board[fr][fc]
      q == s.board[tr][tc]
      dr == tr - fr
      dc == tc - fc
  IN
  IF p.type = EMPTY \/ q.color = p.color THEN FALSE
  ELSE IF p.type = PAWN THEN
    LET dir == IF p.color = WHITE THEN -1 ELSE 1 IN
    \/ dc = 0 /\ dr = dir /\ q.type = EMPTY
    \/ dc = 0 /\ dr = 2 * dir /\ ~p.hasMoved
       /\ s.board[fr + dir][fc].type = EMPTY /\ q.type = EMPTY
    \/ Abs(dc) = 1 /\ dr = dir
       /\ \/ q.type # EMPTY
          \/ tc = s.enPassantCol /\ tr = (IF p.color = WHITE THEN 2 ELSE 5)
  ELSE IF p.type = KNIGHT THEN
    \/ Abs(dr) = 2 /\ Abs(dc) = 1
    \/ Abs(dr) = 1 /\ Abs(dc) = 2
  ELSE IF p.type = KING THEN
    \/ Abs(dr) <= 1 /\ Abs(dc) <= 1
    \/ /\ ~ignoreCheck /\ dr = 0 /\ Abs(dc) = 2 /\ ~p.hasMoved
       /\ castlingClear(s, fr, fc, tr, tc)
  ELSE
    LET diag == Abs(dr) = Abs(dc)
        straight == dr = 0 \/ dc = 0
        sr == Sign(dr)
        sc == Sign(dc)
    IN
    /\ p.type = BISHOP => diag
    /\ p.type = ROOK => straight
    /\ p.type = QUEEN => (diag \/ straight)
    /\ \A k \in 1..(Max(Abs(dr), Abs(dc)) - 1) :
         s.board[fr + k * sr][fc + k * sc].type = EMPTY

\* isInCheck asking for attacks by the king's own color.
isInCheckByOwnColor(s, c) ==
  LET k == findKing(s, c, s.uninit.kr, s.uninit.kc)
  IN IF isValid(k[1], k[2]) THEN isSquareAttacked(s, k[1], k[2], c)
     ELSE s.uninit.beyond = "attacked"

(***************************************************************************)
(* isInCheck declares kr, kc without a value.  When findKing assigns       *)
(* nothing they are read uninitialised: s.uninit is what they happen to    *)
(* hold.  Values on the board give the answer for that square; values off  *)
(* the board make isSquareAttacked read outside the array, and             *)
(* s.uninit.beyond is what comes of that: "attacked", "safe", or "fault"   *)
(* when the program stops there (see isInCheckFaults).                     *)
(***************************************************************************)
isInCheck(s, c) ==
  LET k == findKing(s, c, s.uninit.kr, s.uninit.kc)
  IN IF isValid(k[1], k[2])
     THEN isSquareAttacked(s, k[1], k[2], opponent(c))
     ELSE s.uninit.beyond = "attacked"

\* The call of isInCheck(c) does not return: no king of color c, and the
\* read outside the board faults.
isInCheckFaults(s, c) ==
  LET k == findKing(s, c, s.uninit.kr, s.uninit.kc)
  IN ~isValid(k[1], k[2]) /\ s.uninit.beyond = "fault"

(***************************************************************************)
(* testMove: put the piece of (fr, fc) on (tr, tc), clear (fr, fc), ask    *)
(* whether the mover's king is attacked, and put both squares back.  Only  *)
(* these two squares change: a pawn taken en passant and a castling rook   *)
(* stay where they are during the probe.  The board is restored exactly,   *)
(* so the probe is a function of the position.                             *)
(***************************************************************************)
testMove(s, fr, fc, tr, tc) ==
  LET a == s.board[fr][fc]
      probe == [s EXCEPT !.board[tr][tc] = a, !.board[fr][fc] = NoPiece]
  IN ~isInCheck(probe, a.color)

(***************************************************************************)
(* getLegalMoves: the four nested loops over (r, col, tr, tc) in row-major *)
(* order; index i of Squares4 stands for ((r*8 + col)*8 + tr)*8 + tc.  A   *)
(* pawn move onto row 0 or 7 is entered four times (QUEEN, ROOK, BISHOP,   *)
(* KNIGHT, in this order), every other move once.                          *)
(***************************************************************************)
\* The loop nest stopping after the origins of rows 0 to 3.
Squares4UpperHalf == [i \in 1..2048 |-> i - 1]

Squares4 == [i \in 1..4096 |-> i - 1]

\* The list of promotion types without the knight.
promotionTypesNoKnight == <<QUEEN, ROOK, BISHOP, BISHOP>>

promotionTypes == <<QUEEN, ROOK, BISHOP, KNIGHT>>

taggedMove(s, c, r, col, tr, tc) ==
  [Move(r, col, tr, tc) EXCEPT
     !.isCastling = (s.board[r][col].type = KING /\ Abs(tc - col) = 2),
     !.isEnPassant = (s.board[r][col].type = PAWN /\ tc = s.enPassantCol
                      /\ tr = (IF c = WHITE THEN 2 ELSE 5))]

RECURSIVE expandMoves(_, _, _, _)
expandMoves(s, c, cand, k) ==
  IF k > Len(cand) THEN <<>>
  ELSE LET i == cand[k]
           r == i \div 512
           col == (i \div 64) % 8
           tr == (i \div 8) % 8
           tc == i % 8
           m == taggedMove(s, c, r, col, tr, tc)
       IN (IF s.board[r][col].type = PAWN /\ (tr = 0 \/ tr = 7)
           THEN [j \in 1..4 |-> [m EXCEPT !.promotion = promotionTypes[j]]]
           ELSE <<m>>)
          \o expandMoves(s, c, cand, k + 1)

getLegalMoves(s, c) ==
  LET keep(i) ==
        LET r == i \div 512
            col == (i \div 64) % 8
            tr == (i \div 8) % 8
            tc == i % 8
        IN /\ s.board[r][col].color = c
           /\ canPieceMoveTo(s, r, col, tr, tc, FALSE)
           /\ testMove(s, r, col, tr, tc)
  IN expandMoves(s, c, SelectSeq(Squares4, keep), 1)

\* getLegalMoves(c) does not return: the first candidate that passes
\* canPieceMoveTo is probed by testMove, whose isInCheck(c) faults.
getLegalMovesFaults(s, c) ==
  /\ isInCheckFaults(s, c)
  /\ \E i \in 0..4095 :
       /\ s.board[i \div 512][(i \div 64) % 8].color = c
       /\ canPieceMoveTo(s, i \div 512, (i \div 64) % 8,
                         (i \div 8) % 8, i % 8, FALSE)

(***************************************************************************)
(* getPositionKey: two characters per square ('0' + type, '0' + color) in  *)
(* row-major order, then '0' + currentPlayer; characters are their codes.  *)
(***************************************************************************)
Char0 == 48

getPositionKey(s) ==
  [i \in 1..129 |->
     IF i = 129 THEN Char0 + s.currentPlayer
     ELSE LET sq == (i - 1) \div 2
              p == s.board[sq \div 8][sq % 8]
          IN IF i % 2 = 1 THEN Char0 + p.type ELSE Char0 + p.color]

\* unordered_map::operator[]: a key that is absent is entered with count 0.
touch(pc, k) ==
  IF k \in DOMAIN pc THEN pc
  ELSE [x \in DOMAIN pc \cup {k} |-> IF x = k THEN 0 ELSE pc[x]]

increment(pc, k) ==
  [x \in DOMAIN pc \cup {k} |->
     IF x = k THEN (IF k \in DOMAIN pc THEN pc[k] ELSE 0) + 1 ELSE pc[x]]

count(pc, k) == IF k \in DOMAIN pc THEN pc[k] ELSE 0

\* insufficientMaterial allowing two bishops or knights.
insufficientMaterialTwoMinors(s) ==
  LET others == {i \in 0..63 :
                   s.board[i \div 8][i % 8].type \notin {EMPTY, KING}}
      minors == {i \in others :
                   s.board[i \div 8][i % 8].type \in {BISHOP, KNIGHT}}
  IN others = minors /\ Cardinality(minors) <= 2

insufficientMaterial(s) ==
  LET others == {i \in 0..63 :
                   s.board[i \div 8][i % 8].type \notin {EMPTY, KING}}
      minors == {i \in others :
                   s.board[i \div 8][i % 8].type \in {BISHOP, KNIGHT}}
  IN others = minors /\ Cardinality(minors) <= 1

\* The clock value at which getGameStatus reports the 50-move draw.
FiftyMoveLimit == 100

RepetitionLimit == 3

\* getGameStatus asking for the legal moves before the draws.
getGameStatusMovesFirst(s) ==
  LET moves == getLegalMoves(s, s.currentPlayer) IN
  IF moves = <<>>
    THEN (IF isInCheck(s, s.currentPlayer) THEN "checkmate" ELSE "stalemate")
  ELSE IF count(s.positionCount, getPositionKey(s)) >= RepetitionLimit
    THEN "draw (threefold repetition)"
  ELSE IF s.halfMoveClock >= FiftyMoveLimit THEN "draw (50-move rule)"
  ELSE IF insufficientMaterial(s) THEN "draw (insufficient material)"
  ELSE IF isInCheck(s, s.currentPlayer) THEN "check"
  ELSE "active"

getGameStatus(s) ==
  IF count(s.positionCount, getPositionKey(s)) >= RepetitionLimit
    THEN "draw (threefold repetition)"
  ELSE IF s.halfMoveClock >= FiftyMoveLimit THEN "draw (50-move rule)"
  ELSE IF insufficientMaterial(s) THEN "draw (insufficient material)"
  ELSE LET moves == getLegalMoves(s, s.currentPlayer) IN
       IF moves = <<>>
         THEN (IF isInCheck(s, s.currentPlayer) THEN "checkmate" ELSE "stalemate")
       ELSE IF isInCheck(s, s.currentPlayer) THEN "check"
       ELSE "active"

\* getGameStatus does not return: past the three draws it asks for the legal
\* moves and then, whether there are any or not, isInCheck(currentPlayer).
getGameStatusFaults(s) ==
  /\ count(s.positionCount, getPositionKey(s)) < RepetitionLimit
  /\ s.halfMoveClock < FiftyMoveLimit
  /\ ~insufficientMaterial(s)
  /\ isInCheckFaults(s, s.currentPlayer)

(***************************************************************************)
(* The engine as one record g: the Position fields, the two snapshot       *)
(* stacks (top = last element), the move log (the linked list from         *)
(* historyHead to historyTail, as a sequence) and historyCurrent as an     *)
(* index into it, 0 for nullptr.                                           *)
(***************************************************************************)
getState(g) ==
  [board |-> g.board, currentPlayer |-> g.currentPlayer,
   enPassantCol |-> g.enPassantCol, enPassantRow |-> g.enPassantRow,
   halfMoveClock |-> g.halfMoveClock, positionCount |-> g.positionCount]

\* setState leaving the halfmove clock as it is.
setStateKeepsClock(g, s) ==
  [g EXCEPT !.board = s.board, !.currentPlayer = s.currentPlayer,
            !.enPassantCol = s.enPassantCol, !.enPassantRow = s.enPassantRow,
            !.positionCount = s.positionCount]

\* setState leaving the repetition counts as they are.
setStateKeepsCounts(g, s) ==
  [g EXCEPT !.board = s.board, !.currentPlayer = s.currentPlayer,
            !.enPassantCol = s.enPassantCol, !.enPassantRow = s.enPassantRow,
            !.halfMoveClock = s.halfMoveClock]

setState(g, s) ==
  [g EXCEPT !.board = s.board, !.currentPlayer = s.currentPlayer,
            !.enPassantCol = s.enPassantCol, !.enPassantRow = s.enPassantRow,
            !.halfMoveClock = s.halfMoveClock,
            !.positionCount = s.positionCount]

\* The node is linked after historyTail and becomes historyCurrent.
addMoveToHistory(g, m) ==
  [g EXCEPT !.history = Append(g.history, m),
            !.historyCurrent = Len(g.history) + 1]

\* makeMove removing the pawn taken en passant from the destination square.
makeMoveRemovesAtTarget(g, m) ==
  LET g1 == addMoveToHistory(
              [g EXCEPT !.undoStack = Append(g.undoStack, getState(g)),
                        !.redoStack = <<>>], m)
      p == g.board[m.fromRow][m.fromCol]
      clock == IF p.type = PAWN \/ g.board[m.toRow][m.toCol].type # EMPTY
               THEN 0 ELSE g.halfMoveClock + 1
      b1 == IF m.isEnPassant
            THEN [g.board EXCEPT ![m.toRow][m.toCol] = NoPiece]
            ELSE g.board
      double == p.type = PAWN /\ Abs(m.toRow - m.fromRow) = 2
      rookFrom == IF m.toCol > m.fromCol THEN 7 ELSE 0
      rookTo == IF m.toCol > m.fromCol THEN m.toCol - 1 ELSE m.toCol + 1
      b2 == IF m.isCastling
            THEN [b1 EXCEPT ![m.fromRow][rookTo] = b1[m.fromRow][rookFrom],
                            ![m.fromRow][rookFrom] = NoPiece]
            ELSE b1
      b3 == [b2 EXCEPT ![m.toRow][m.toCol] = [p EXCEPT !.hasMoved = TRUE],
                       ![m.fromRow][m.fromCol] = NoPiece]
      b4 == IF m.promotion # EMPTY
            THEN [b3 EXCEPT ![m.toRow][m.toCol].type = m.promotion]
            ELSE b3
      g2 == [g1 EXCEPT !.halfMoveClock = clock,
                       !.enPassantCol = IF double THEN m.toCol ELSE -1,
                       !.enPassantRow = IF double THEN m.toRow ELSE -1,
                       !.board = b4,
                       !.currentPlayer = opponent(g.currentPlayer)]
  IN [g2 EXCEPT !.positionCount = increment(g.positionCount, getPositionKey(g2))]

\* makeMove that sets the en-passant column on a double step and never
\* clears it.
makeMoveKeepsEnPassant(g, m) ==
  LET g1 == addMoveToHistory(
              [g EXCEPT !.undoStack = Append(g.undoStack, getState(g)),
                        !.redoStack = <<>>], m)
      p == g.board[m.fromRow][m.fromCol]
      clock == IF p.type = PAWN \/ g.board[m.toRow][m.toCol].type # EMPTY
               THEN 0 ELSE g.halfMoveClock + 1
      capturedPawnRow == IF p.color = WHITE THEN m.toRow + 1 ELSE m.toRow - 1
      b1 == IF m.isEnPassant
            THEN [g.board EXCEPT ![capturedPawnRow][m.toCol] = NoPiece]
            ELSE g.board
      double == p.type = PAWN /\ Abs(m.toRow - m.fromRow) = 2
      rookFrom == IF m.toCol > m.fromCol THEN 7 ELSE 0
      rookTo == IF m.toCol > m.fromCol THEN m.toCol - 1 ELSE m.toCol + 1
      b2 == IF m.isCastling
            THEN [b1 EXCEPT ![m.fromRow][rookTo] = b1[m.fromRow][rookFrom],
                            ![m.fromRow][rookFrom] = NoPiece]
            ELSE b1
      b3 == [b2 EXCEPT ![m.toRow][m.toCol] = [p EXCEPT !.hasMoved = TRUE],
                       ![m.fromRow][m.fromCol] = NoPiece]
      b4 == IF m.promotion # EMPTY
            THEN [b3 EXCEPT ![m.toRow][m.toCol].type = m.promotion]
            ELSE b3
      g2 == [g1 EXCEPT !.halfMoveClock = clock,
                       !.enPassantCol = IF double THEN m.toCol ELSE g.enPassantCol,
                       !.enPassantRow = IF double THEN m.toRow ELSE g.enPassantRow,
                       !.board = b4,
                       !.currentPlayer = opponent(g.currentPlayer)]
  IN [g2 EXCEPT !.positionCount = increment(g.positionCount, getPositionKey(g2))]

\* makeMove that leaves the redo stack as it is.
makeMoveKeepsRedo(g, m) ==
  LET g1 == addMoveToHistory(
              [g EXCEPT !.undoStack = Append(g.undoStack, getState(g))], m)
      p == g.board[m.fromRow][m.fromCol]
      clock == IF p.type = PAWN \/ g.board[m.toRow][m.toCol].type # EMPTY
               THEN 0 ELSE g.halfMoveClock + 1
      capturedPawnRow == IF p.color = WHITE THEN m.toRow + 1 ELSE m.toRow - 1
      b1 == IF m.isEnPassant
            THEN [g.board EXCEPT ![capturedPawnRow][m.toCol] = NoPiece]
            ELSE g.board
      double == p.type = PAWN /\ Abs(m.toRow - m.fromRow) = 2
      rookFrom == IF m.toCol > m.fromCol THEN 7 ELSE 0
      rookTo == IF m.toCol > m.fromCol THEN m.toCol - 1 ELSE m.toCol + 1
      b2 == IF m.isCastling
            THEN [b1 EXCEPT ![m.fromRow][rookTo] = b1[m.fromRow][rookFrom],
                            ![m.fromRow][rookFrom] = NoPiece]
            ELSE b1
      b3 == [b2 EXCEPT ![m.toRow][m.toCol] = [p EXCEPT !.hasMoved = TRUE],
                       ![m.fromRow][m.fromCol] = NoPiece]
      b4 == IF m.promotion # EMPTY
            THEN [b3 EXCEPT ![m.toRow][m.toCol].type = m.promotion]
            ELSE b3
      g2 == [g1 EXCEPT !.halfMoveClock = clock,
                       !.enPassantCol = IF double THEN m.toCol ELSE -1,
                       !.enPassantRow = IF double THEN m.toRow ELSE -1,
                       !.board = b4,
                       !.currentPlayer = opponent(g.currentPlayer)]
  IN [g2 EXCEPT !.positionCount = increment(g.positionCount, getPositionKey(g2))]

makeMove(g, m) ==
  LET g1 == addMoveToHistory(
              [g EXCEPT !.undoStack = Append(g.undoStack, getState(g)),
                        !.redoStack = <<>>], m)
      p == g.board[m.fromRow][m.fromCol]
      clock == IF p.type = PAWN \/ g.board[m.toRow][m.toCol].type # EMPTY
               THEN 0 ELSE g.halfMoveClock + 1
      capturedPawnRow == IF p.color = WHITE THEN m.toRow + 1 ELSE m.toRow - 1
      b1 == IF m.isEnPassant
            THEN [g.board EXCEPT ![capturedPawnRow][m.toCol] = NoPiece]
            ELSE g.board
      double == p.type = PAWN /\ Abs(m.toRow - m.fromRow) = 2
      rookFrom == IF m.toCol > m.fromCol THEN 7 ELSE 0
      rookTo == IF m.toCol > m.fromCol THEN m.toCol - 1 ELSE m.toCol + 1
      b2 == IF m.isCastling
            THEN [b1 EXCEPT ![m.fromRow][rookTo] = b1[m.fromRow][rookFrom],
                            ![m.fromRow][rookFrom] = NoPiece]
            ELSE b1
      b3 == [b2 EXCEPT ![m.toRow][m.toCol] = [p EXCEPT !.hasMoved = TRUE],
                       ![m.fromRow][m.fromCol] = NoPiece]
      b4 == IF m.promotion # EMPTY
            THEN [b3 EXCEPT ![m.toRow][m.toCol].type = m.promotion]
            ELSE b3
      g2 == [g1 EXCEPT !.halfMoveClock = clock,
                       !.enPassantCol = IF double THEN m.toCol ELSE -1,
                       !.enPassantRow = IF double THEN m.toRow ELSE -1,
                       !.board = b4,
                       !.currentPlayer = opponent(g.currentPlayer)]
  IN [g2 EXCEPT !.positionCount = increment(g.positionCount, getPositionKey(g2))]

\* undo with the snapshot for redo taken after the restore, not before it.
undoSavesAfterRestore(g) ==
  IF g.undoStack = <<>> THEN g
  ELSE LET n == Len(g.undoStack)
           g1 == setState([g EXCEPT !.undoStack = SubSeq(g.undoStack, 1, n - 1)],
                          g.undoStack[n])
           g2 == [g1 EXCEPT !.redoStack = Append(g.redoStack, getState(g1))]
       IN IF g.historyCurrent # 0
          THEN [g2 EXCEPT !.historyCurrent = g.historyCurrent - 1]
          ELSE g2

\* undo restoring the top snapshot without taking it off the undo stack.
undoLeavesSnapshot(g) ==
  IF g.undoStack = <<>> THEN g
  ELSE LET n == Len(g.undoStack)
           g1 == [g EXCEPT !.redoStack = Append(g.redoStack, getState(g))]
           g2 == setState(g1, g.undoStack[n])
       IN IF g.historyCurrent # 0
          THEN [g2 EXCEPT !.historyCurrent = g.historyCurrent - 1]
          ELSE g2

undo(g) ==
  IF g.undoStack = <<>> THEN g
  ELSE LET n == Len(g.undoStack)
           g1 == [g EXCEPT !.redoStack = Append(g.redoStack, getState(g)),
                           !.undoStack = SubSeq(g.undoStack, 1, n - 1)]
           g2 == setState(g1, g.undoStack[n])
       IN IF g.historyCurrent # 0
          THEN [g2 EXCEPT !.historyCurrent = g.historyCurrent - 1]
          ELSE g2

redo(g) ==
  IF g.redoStack = <<>> THEN g
  ELSE LET n == Len(g.redoStack)
           g1 == [g EXCEPT !.undoStack = Append(g.undoStack, getState(g)),
                           !.redoStack = SubSeq(g.redoStack, 1, n - 1)]
           g2 == setState(g1, g.redoStack[n])
       IN IF g.historyCurrent = 0
          THEN [g2 EXCEPT !.historyCurrent = IF g.history = <<>> THEN 0 ELSE 1]
          ELSE IF g.historyCurrent < Len(g.history)
          THEN [g2 EXCEPT !.historyCurrent = g.historyCurrent + 1]
          ELSE g2

\* printState: prints the board, the turn and getGameStatus(); of the
\* state it only touches the repetition table (operator[] in getGameStatus).
printState(g) ==
  [g EXCEPT !.positionCount = touch(g.positionCount, getPositionKey(g))]

printStateFaults(g) == getGameStatusFaults(g)

(***************************************************************************)
(* parseMove.  A coordinate text is a sequence of one-character strings;   *)
(* CharCode gives the character codes the code computes with.              *)
(***************************************************************************)
CharCode ==
  [ch \in {"a", "b", "c", "d", "e", "f", "g", "h", "i",
           "A", "B", "C", "D", "E", "F", "G", "H",
           "0", "1", "2", "3", "4", "5", "6", "7", "8", "9",
           "q", "r", "n", "Q", "R", "N", "x"} |->
     CASE ch = "a" -> 97 [] ch = "b" -> 98 [] ch = "c" -> 99
       [] ch = "d" -> 100 [] ch = "e" -> 101 [] ch = "f" -> 102
       [] ch = "g" -> 103 [] ch = "h" -> 104 [] ch = "i" -> 105
       [] ch = "A" -> 65 [] ch = "B" -> 66 [] ch = "C" -> 67
       [] ch = "D" -> 68 [] ch = "E" -> 69 [] ch = "F" -> 70
       [] ch = "G" -> 71 [] ch = "H" -> 72
       [] ch = "0" -> 48 [] ch = "1" -> 49 [] ch = "2" -> 50
       [] ch = "3" -> 51 [] ch = "4" -> 52 [] ch = "5" -> 53
       [] ch = "6" -> 54 [] ch = "7" -> 55 [] ch = "8" -> 56
       [] ch = "9" -> 57
       [] ch = "q" -> 113 [] ch = "r" -> 114 [] ch = "n" -> 110
       [] ch = "Q" -> 81 [] ch = "R" -> 82 [] ch = "N" -> 78
       [] ch = "x" -> 120]

tolower(x) == IF x >= 65 /\ x <= 90 THEN x + 32 ELSE x

toupper(x) == IF x >= 97 /\ x <= 122 THEN x - 32 ELSE x

\* [ok, move]: u.promotion is read from the fifth character; the flags of u
\* are those of Move().
parseMove(str) ==
  IF Len(str) < 4 THEN [ok |-> FALSE, move |-> Move(-1, -1, -1, -1)]
  ELSE LET s == [i \in 1..Len(str) |-> tolower(CharCode[str[i]])]
           p == IF Len(s) >= 5 THEN toupper(s[5]) ELSE 0
           m == [Move(8 - (s[2] - 48), s[1] - 97, 8 - (s[4] - 48), s[3] - 97)
                   EXCEPT !.promotion =
                     CASE p = 81 -> QUEEN [] p = 82 -> ROOK
                       [] p = 66 -> BISHOP [] p = 78 -> KNIGHT
                       [] OTHER -> EMPTY]
       IN [ok |-> isValid(m.fromRow, m.fromCol) /\ isValid(m.toRow, m.toCol),
           move |-> m]

(***************************************************************************)
(* play, MOVE branch: the first move of getLegalMoves(currentPlayer) with  *)
(* the squares of u is the move a that is made.  sameSquares is the test   *)
(* of the loop; matchLegal gives 0 when no move passes it.                 *)
(***************************************************************************)
sameSquares(m, u) ==
  /\ m.fromRow = u.fromRow /\ m.fromCol = u.fromCol
  /\ m.toRow = u.toRow /\ m.toCol = u.toCol

matchLegal(moves, u) ==
  LET hits == {i \in 1..Len(moves) : sameSquares(moves[i], u)}
  IN IF hits = {} THEN 0 ELSE CHOOSE i \in hits : \A j \in hits : i <= j

\* What the MOVE command answers, given the list that
\* getLegalMoves(currentPlayer) returns: "InvalidMove", "IllegalMove" or ""
\* (the move is made).  The list is not asked for when the text does not parse.
moveErrorOn(str, moves) ==
  LET pr == parseMove(str) IN
  IF ~pr.ok THEN "InvalidMove"
  ELSE IF matchLegal(moves, pr.move) = 0 THEN "IllegalMove"
  ELSE ""

moveError(g, str) == moveErrorOn(str, getLegalMoves(g, g.currentPlayer))

\* play entering the parsed move in the log before it looks for a legal match.
playMoveOnLogsFirst(g, str, moves) ==
  LET pr == parseMove(str) IN
  IF ~pr.ok THEN printState(g)
  ELSE LET g1 == addMoveToHistory(g, pr.move)
           i == matchLegal(moves, pr.move)
       IN IF i = 0 THEN printState(g1)
          ELSE printState(makeMove(g, moves[i]))

\* The engine after the command MOVE str, the printState that follows
\* every branch included.
playMoveOn(g, str, moves) ==
  LET pr == parseMove(str) IN
  IF ~pr.ok THEN printState(g)
  ELSE LET i == matchLegal(moves, pr.move)
       IN IF i = 0 THEN printState(g)
          ELSE printState(makeMove(g, moves[i]))

playMove(g, str) == playMoveOn(g, str, getLegalMoves(g, g.currentPlayer))

playUndo(g) == printState(undo(g))

playRedo(g) == printState(redo(g))

\* kr, kc of isInCheck off the board, and a fault where they are used.  The
\* locals are no field of ChessGame: the record G carries this value, which
\* is never read while the side to move has its king, and each command puts
\* in its place every value of Stray that the locals may hold.
Unassigned == [kr |-> -1, kc |-> -1, beyond |-> "fault"]

\* The values of the uninitialised kr, kc that lie on the board: any square.
StraySquares == (0..7) \X (0..7)

\* What the uninitialised kr, kc of isInCheck may hold, with what comes of
\* reading the board outside its bounds.
Garbage ==
  {[kr |-> sq[1], kc |-> sq[2], beyond |-> "safe"] : sq \in StraySquares}
    \cup {[kr |-> -1, kc |-> -1, beyond |-> b] :
            b \in {"fault", "attacked", "safe"}}

hasKing(g, c) ==
  \E r \in 0..7 : \E col \in 0..7 :
    g.board[r][col].type = KING /\ g.board[r][col].color = c

\* The values the locals may hold at a call of isInCheck in g.  play calls
\* it for the side to move only (getLegalMoves(currentPlayer) through
\* testMove, and getGameStatus), so nothing unassigned is read while that
\* side has its king.
Stray(g) ==
  IF hasKing(g, g.currentPlayer) THEN {Unassigned} ELSE Garbage

(***************************************************************************)
(* State: the fields of ChessGame, and the user's score sheet: line is the *)
(* texts of the moves made and not undone, redoLine those of the moves     *)
(* undone and not yet redone.  The sheet is not read by the engine; it     *)
(* only decides which texts the user enters next.                          *)
(***************************************************************************)
VARIABLES board, currentPlayer, enPassantCol, enPassantRow, halfMoveClock,
          positionCount, undoStack, redoStack, history, historyCurrent,
          crashed, line, redoLine

vars == <<board, currentPlayer, enPassantCol, enPassantRow, halfMoveClock,
          positionCount, undoStack, redoStack, history, historyCurrent,
          crashed, line, redoLine>>

G ==
  [board |-> board, currentPlayer |-> currentPlayer,
   enPassantCol |-> enPassantCol, enPassantRow |-> enPassantRow,
   halfMoveClock |-> halfMoveClock, positionCount |-> positionCount,
   undoStack |-> undoStack, redoStack |-> redoStack,
   history |-> history, historyCurrent |-> historyCurrent,
   uninit |-> Unassigned]

Become(g) ==
  /\ board' = g.board
  /\ currentPlayer' = g.currentPlayer
  /\ enPassantCol' = g.enPassantCol
  /\ enPassantRow' = g.enPassantRow
  /\ halfMoveClock' = g.halfMoveClock
  /\ positionCount' = g.positionCount
  /\ undoStack' = g.undoStack
  /\ redoStack' = g.redoStack
  /\ history' = g.history
  /\ historyCurrent' = g.historyCurrent

\* ChessGame(): the constructor, then the printState that opens play().
NewGame ==
  LET g0 == [board |-> setupBoard, currentPlayer |-> WHITE,
             enPassantCol |-> -1, enPassantRow |-> -1, halfMoveClock |-> 0,
             positionCount |-> <<>>, undoStack |-> <<>>, redoStack |-> <<>>,
             history |-> <<>>, historyCurrent |-> 0,
             uninit |-> Unassigned]
  IN printState([g0 EXCEPT !.positionCount =
                   increment(<<>>, getPositionKey(g0))])

Init ==
  /\ board = NewGame.board
  /\ currentPlayer = NewGame.currentPlayer
  /\ enPassantCol = NewGame.enPassantCol
  /\ enPassantRow = NewGame.enPassantRow
  /\ halfMoveClock = NewGame.halfMoveClock
  /\ positionCount = NewGame.positionCount
  /\ undoStack = NewGame.undoStack
  /\ redoStack = NewGame.redoStack
  /\ history = NewGame.history
  /\ historyCurrent = NewGame.historyCurrent
  /\ crashed = FALSE
  /\ line = <<>>
  /\ redoLine = <<>>

(***************************************************************************)
(* The commands explored.  A game is a sequence of coordinate texts and a  *)
(* book is a set of games.  The MOVE command is given the next text of any *)
(* game of the book that starts with the moves of the current line, or one *)
(* of the texts of Malformed; UNDO and REDO may be given at any time.      *)
(***************************************************************************)
\* The log holds at most this many entries that are not on the current line
\* when a move is made.
MaxRework == 1

\* The same for the larger books.
BookRework == 0

\* UNDO is explored up to this depth of the redo stack.
MaxRedo == 2

files == <<"a", "b", "c", "d", "e", "f", "g", "h">>

ranks == <<"1", "2", "3", "4", "5", "6", "7", "8">>

\* The text of a move written as four digits, file and rank of the origin and
\* of the destination: T(5254) is e2e4.
T(n) ==
  <<files[n \div 1000], ranks[(n \div 100) % 10],
    files[(n \div 10) % 10], ranks[n % 10]>>

Texts(ns) == [i \in 1..Len(ns) |-> T(ns[i])]

Malformed ==
  {<<"e", "2">>, <<"i", "2", "e", "4">>, <<"e", "9", "e", "4">>,
   <<"e", "2", "e", "5">>}

IsPrefix(a, b) == Len(a) <= Len(b) /\ SubSeq(b, 1, Len(a)) = a

Offered(book) ==
  {gm[Len(line) + 1] :
     gm \in {x \in book : Len(x) > Len(line) /\ IsPrefix(line, x)}}
    \cup Malformed

\* The printState that ends a command, already applied in g: its
\* getGameStatus reads the locals with one of the values they may hold, and
\* the program stops there when that read faults.
Printed(g) ==
  /\ Become(g)
  /\ crashed' \in {printStateFaults([g EXCEPT !.uninit = w]) : w \in Stray(g)}

\* The program stops inside the command, before it changed anything.
Faulted ==
  /\ Become(G)
  /\ crashed' = TRUE
  /\ UNCHANGED <<line, redoLine>>

\* MOVE with a text that does not parse.
MoveInvalid(book) ==
  LET moves == getLegalMoves(G, currentPlayer) IN
  /\ ~crashed
  /\ \E str \in Offered(book) :
       /\ ~parseMove(str).ok
       /\ moveErrorOn(str, moves) = "InvalidMove"
       /\ Printed(playMoveOn(G, str, moves))
       /\ UNCHANGED <<line, redoLine>>

\* MOVE with a text that parses and is not made: it matches no legal move,
\* or getLegalMoves faults.
MoveIllegal(book) ==
  /\ ~crashed
  /\ \E w \in Stray(G) :
       LET Gw == [G EXCEPT !.uninit = w]
           moves == getLegalMoves(Gw, currentPlayer)
       IN \E str \in Offered(book) :
            /\ parseMove(str).ok
            /\ IF getLegalMovesFaults(Gw, currentPlayer) THEN Faulted
               ELSE /\ moveErrorOn(str, moves) = "IllegalMove"
                    /\ Printed(playMoveOn(G, str, moves))
                    /\ UNCHANGED <<line, redoLine>>

\* MOVE with a text that matches a legal move.
MoveApplied(book, rework) ==
  /\ ~crashed
  /\ Len(history) - Len(undoStack) <= rework
  /\ \E w \in Stray(G) :
       LET Gw == [G EXCEPT !.uninit = w]
           moves == getLegalMoves(Gw, currentPlayer)
       IN \E str \in Offered(book) :
            /\ ~getLegalMovesFaults(Gw, currentPlayer)
            /\ moveErrorOn(str, moves) = ""
            /\ Printed(playMoveOn(G, str, moves))
            /\ line' = Append(line, str)
            /\ redoLine' = <<>>

Undo ==
  /\ ~crashed
  /\ Len(redoStack) < MaxRedo
  /\ Printed(playUndo(G))
  /\ IF undoStack = <<>> THEN UNCHANGED <<line, redoLine>>
     ELSE /\ line' = SubSeq(line, 1, Len(line) - 1)
          /\ redoLine' = Append(redoLine, line[Len(line)])

Redo ==
  /\ ~crashed
  /\ Printed(playRedo(G))
  /\ IF redoStack = <<>> THEN UNCHANGED <<line, redoLine>>
     ELSE /\ line' = Append(line, redoLine[Len(redoLine)])
          /\ redoLine' = SubSeq(redoLine, 1, Len(redoLine) - 1)

NextWithin(book, rework) ==
  \/ MoveInvalid(book)
  \/ MoveIllegal(book)
  \/ MoveApplied(book, rework)
  \/ Undo
  \/ Redo

NextOver(book) == NextWithin(book, MaxRework)

\* The MOVE commands alone, for the long games.
NextMoves(book) ==
  \/ MoveInvalid(book)
  \/ MoveIllegal(book)
  \/ MoveApplied(book, 0)

(***************************************************************************)
(* Spec: the opening book.                                                 *)
(*   FoolsMate      1.f3 e5 2.g4 Qh4, then Kf2 is tried                    *)
(*   EnPassantLine  1.e4 f5 2.e5 d5 3.exd6 exd6                            *)
(*   LateCapture    1.e4 f5 2.e5 d5 3.Nf3 Nf6, then exd6 is tried          *)
(*   OtherPawn      1.e4 f5 2.e5 d5, then exf6 is tried                    *)
(***************************************************************************)
FoolsMate == Texts(<<6263, 5755, 7274, 4884, 5162>>)

EnPassantLine == Texts(<<5254, 6765, 5455, 4745, 5546, 5746>>)

LateCapture == Texts(<<5254, 6765, 5455, 4745, 7163, 7866, 5546>>)

OtherPawn == Texts(<<5254, 6765, 5455, 4745, 5566>>)

OpeningBook == {FoolsMate, EnPassantLine, LateCapture, OtherPawn}

Next == NextOver(OpeningBook)

Spec == Init /\ [][Next]_vars

(***************************************************************************)
(* SpecPin: one game in which a pawn taken en passant is all that stands   *)
(* between a queen and the king of the capturing side.                     *)
(*   1.c3 e5 2.Qa4 e4 3.Na3 Ke7 4.Nb1 Kf6 5.Na3 Kg5 6.Nb1 Kg4 7.d4 exd3    *)
(* After 7.d4 the fourth rank reads Qa4, d4, e4, Kg4.  After 7...exd3 the  *)
(* queen can take the king, and from then on isInCheck(BLACK) reads its    *)
(* locals unassigned.                                                      *)
(***************************************************************************)
PinGame ==
  Texts(<<3233, 5755, 4114, 5554, 2113, 5857, 1321, 5766, 2113, 6675, 1321,
          7574, 4244, 5443>>)

\* 8.Qxg4 takes the king, 8...b5 9.Qf3 puts the queen on the diagonal of
\* a8; then 9...Nc6 and 9...a6 are tried.
KingTaken == PinGame \o Texts(<<1474, 2725, 7463>>)

PinBook == {PinGame, KingTaken \o Texts(<<2836>>), KingTaken \o Texts(<<1716>>)}

NextPin == NextOver(PinBook)

SpecPin == Init /\ [][NextPin]_vars

(***************************************************************************)
(* SpecPromo: 1.h4 a6 2.h5 a5 3.h6 a4 4.hxg7 a3, then 5.gxh8 is given with  *)
(* each of the promotion letters; or 4...Nf6, then 5.g8.                    *)
(***************************************************************************)
PromoOpening == Texts(<<8284, 1716, 8485, 1615, 8586, 1514, 8677, 1413>>)

PromoLetters == {"q", "r", "b", "n"}

\* 4...Nf6 instead of 4...a3 leaves g8 empty: 5.g8 is given with the letter r.
PromoAdvance ==
  SubSeq(PromoOpening, 1, 7) \o <<T(7866), Append(T(7778), "r")>>

PromoBook ==
  {Append(PromoOpening, Append(T(7788), x)) : x \in PromoLetters}
    \cup {PromoAdvance}

NextPromo == NextOver(PromoBook)

SpecPromo == Init /\ [][NextPromo]_vars

(***************************************************************************)
(* SpecCastle: castling made, and castling tried when it is not allowed.   *)
(* Six games open 1.Nf3 Nf6 2.g3 g6 3.Bg2 Bg7 and go on                    *)
(*   CastleShort   4.O-O O-O                                               *)
(*   KingBack      4.Kf1 Kf8 5.Ke1 Ke8, then O-O is tried                  *)
(*   RookBack      4.Rg1 Rg8 5.Rh1 Rh8, then O-O is tried                  *)
(*   ThroughF1     4.e4 b6 5.a3 Ba6 (the bishop looks at f1), then O-O     *)
(*   OntoG1        4.a3 Nh5 5.a4 Nf4 6.a5 Nh3 (the knight looks at g1),    *)
(*                 then O-O                                                *)
(*   OutOfCheck    4.d4 c5 5.a3 Qa5+, then O-O                             *)
(* and two do not:                                                         *)
(*   NoRook        1.g4 b6 2.e3 Bb7 3.Bd3 Bxh1 4.Ne2 a6, then O-O          *)
(*   CastleLong    1.d4 d5 2.Nc3 Nc6 3.Bf4 Bf5 4.Qd2 Qd7 5.O-O-O O-O-O     *)
(***************************************************************************)
Fianchetto == Texts(<<7163, 7866, 7273, 7776, 6172, 6877>>)

CastleShort == Fianchetto \o Texts(<<5171, 5878>>)

KingBack == Fianchetto \o Texts(<<5161, 5868, 6151, 6858, 5171>>)

RookBack == Fianchetto \o Texts(<<8171, 8878, 7181, 7888, 5171>>)

ThroughF1 == Fianchetto \o Texts(<<5254, 2726, 1213, 3816, 5171>>)

OntoG1 == Fianchetto \o Texts(<<1213, 6685, 1314, 8564, 1415, 6483, 5171>>)

OutOfCheck == Fianchetto \o Texts(<<4244, 3735, 1213, 4815, 5171>>)

NoRook == Texts(<<7274, 2726, 5253, 3827, 6143, 2781, 7152, 1716, 5171>>)

CastleLong ==
  Texts(<<4244, 4745, 2133, 2836, 3164, 3865, 4142, 4847, 5131, 5838>>)

CastleBook ==
  {CastleShort, KingBack, RookBack, ThroughF1, OntoG1, OutOfCheck, NoRook,
   CastleLong}

NextCastle == NextWithin(CastleBook, BookRework)

SpecCastle == Init /\ [][NextCastle]_vars

(***************************************************************************)
(* SpecStatus: long games, MOVE commands only.                             *)
(*   QuietMate    1.f3 e5 2.g4, then 104 moves of pieces going out and     *)
(*                back with no capture and no pawn move (the position      *)
(*                after 2.g4 comes back every fourth move), then Qh4 mate  *)
(*                with the clock at 105                                    *)
(*   FoolsMate    the same mate at once                                    *)
(*   Loyd         a stalemate with most of the pieces on the board, in 19  *)
(*                moves                                                    *)
(*   Cornered     every piece but the kings and a black bishop is taken    *)
(*                in 50 moves (Bare); then the white king is stalemated    *)
(*                on a5                                                    *)
(*   Wander       Bare, the kings step aside and back twice, then 94       *)
(*                moves through positions not seen before                  *)
(***************************************************************************)
QuietMate ==
  Texts(<<6263, 5755, 7274, 2836, 2133, 3628, 3321, 2816, 2113, 1628, 1321,
          7866, 7183, 6678, 8371, 7886, 6172, 8678, 7261, 7857, 6183, 5778,
          8361, 4857, 5162, 5748, 6251, 6857, 2133, 5768, 3321, 6846, 2113,
          4668, 1321, 4866, 7183, 6648, 8371, 2836, 6172, 3628, 7261, 2816,
          6183, 1628, 8361, 7866, 5162, 6678, 6251, 7886, 2133, 8678, 3321,
          7857, 2113, 5778, 1321, 4857, 7183, 5748, 8371, 6857, 6172, 5768,
          7261, 6846, 6183, 4668, 8361, 4866, 5162, 6648, 6251, 2836, 2133,
          3628, 3321, 2816, 2113, 1628, 1321, 7866, 7183, 6678, 8371, 7886,
          6172, 8678, 7261, 7857, 6183, 5778, 8361, 4857, 5162, 5748, 6251,
          6857, 2133, 5768, 3321, 5857, 2133, 5758, 3321, 4884>>)

Loyd ==
  Texts(<<5253, 1715, 4185, 1816, 8515, 8785, 8284, 1686, 1537, 6766, 3747,
          5867, 4727, 4843, 2728, 4387, 2838, 6776, 3856>>)

Bare ==
  Texts(<<8284, 7775, 8475, 7866, 8187, 6687, 6264, 8775, 6475, 6886, 7586,
          8886, 7183, 8683, 7283, 2836, 4244, 3644, 4144, 5868, 4447, 4847,
          5254, 4783, 6183, 3883, 2133, 2725, 3325, 1716, 2537, 1817, 3716,
          1716, 3153, 1612, 1112, 6765, 5465, 8365, 5364, 6532, 2223, 3223,
          6431, 2312, 3113, 1221, 1357, 6857>>)

Cornered ==
  Bare \o Texts(<<5142, 5746, 4233, 2143, 3324, 4325, 2415, 4635
>>)

Wander ==
  Bare \o Texts(<<5141, 5747, 4151, 4757, 5141, 5747, 4151, 4757, 5152, 2132, 5242,
          5756, 4233, 3214, 3324, 5645, 2415, 4534, 1516, 3433, 1615, 1432,
          1526, 3342, 2616, 3221, 1615, 2132, 1525, 3254, 2526, 5487, 2615,
          4253, 1525, 5342, 2535, 4243, 3526, 8776, 2615, 7665, 1516, 4353,
          1617, 6574, 1726, 7483, 2616, 8372, 1626, 7254, 2625, 5352, 2524,
          5421, 2413, 5261, 1314, 6162, 1423, 6263, 2322, 2176, 2212, 6374,
          1222, 7685, 2233, 8567, 3344, 6745, 4453, 4556, 5354, 7484, 5455,
          8475, 5544, 5674, 4453, 7452, 5344, 5241, 4455, 7576, 5564, 4152,
          6473, 7687, 7372, 5241, 7262, 4174, 6272, 7438, 7273, 3883, 7384,
          8356, 8475, 5647>>)

StatusBook == {QuietMate, FoolsMate, Loyd, Cornered, Wander}

NextStatus == NextMoves(StatusBook)

SpecStatus == Init /\ [][NextStatus]_vars

(***************************************************************************)
(* SpecRep: the knights go out and back, with UNDO and REDO.               *)
(*   KnightsDance  1.Nf3 Nf6 2.Ng1 Ng8 twice over, then 5.Nf3              *)
(*   OtherKnights  1.Nf3 Nf6 2.Ng1 Ng8 3.Nc3 Nc6 4.Nb1 Nb8                 *)
(* Both bring the initial position back for the third time with the        *)
(* eighth move.                                                            *)
(***************************************************************************)
KnightsDance ==
  Texts(<<7163, 7866, 6371, 6678, 7163, 7866, 6371, 6678, 7163>>)

OtherKnights ==
  Texts(<<7163, 7866, 6371, 6678, 2133, 2836, 3321, 3628>>)

RepBook == {KnightsDance, OtherKnights}

NextRep == NextOver(RepBook)

SpecRep == Init /\ [][NextRep]_vars

(***************************************************************************)
(* SpecMaterial: games that strip the board, MOVE commands only.           *)
(*   KnightLeft   49 moves to king and knight against king                 *)
(*   TwoBishops   46 moves to king and two bishops against king            *)
(*   BareKings    Bare (king against king and bishop), then the white      *)
(*                king walks to b1 and takes the bishop                    *)
(***************************************************************************)
KnightLeft ==
  Texts(<<5254, 6765, 5465, 1716, 6116, 2816, 6566, 5766, 2224, 1624, 7163,
          1812, 1112, 2412, 5171, 1231, 4131, 6813, 2113, 2725, 1325, 5867,
          2537, 4837, 3111, 3732, 1166, 7866, 6351, 3242, 5163, 4262, 7162,
          7775, 6375, 6758, 7587, 5848, 8766, 8882, 6647, 8272, 6272, 4858,
          6167, 5867, 4735, 3847, 3547>>)

TwoBishops ==
  Texts(<<5254, 6765, 5465, 1716, 6116, 8786, 1627, 1812, 2738, 1211, 3847,
          5867, 4174, 1121, 7477, 6877, 4243, 2122, 3186, 2232, 8677, 8882,
          8182, 3262, 5162, 2836, 4736, 4843, 8284, 4365, 8464, 6564, 7163,
          6463, 3663, 7866, 7766, 6756, 6657, 3735, 5735, 5655, 6252, 5564,
          7273, 6473>>)

BareKings ==
  Bare \o Texts(<<5141, 5756, 4131, 5657, 3121
>>)

MaterialBook == {KnightLeft, TwoBishops, BareKings}

NextMaterial == NextMoves(MaterialBook)

SpecMaterial == Init /\ [][NextMaterial]_vars

(***************************************************************************)
(* SpecCheck: 1.e4 a6 2.e5 a5 3.Ke2 a4 4.Ke3 h6 5.Ke4 d5+, a double step   *)
(* that gives check from a pawn the pawn of e5 can take en passant, then    *)
(* 6.exd6.                                                                  *)
(***************************************************************************)
PawnCheck ==
  Texts(<<5254, 1716, 5455, 1615, 5152, 1514, 5253, 8786, 5354, 4745, 5546>>)

CheckBook == {PawnCheck}

NextCheck == NextOver(CheckBook)

SpecCheck == Init /\ [][NextCheck]_vars

(***************************************************************************)
(* Properties.                                                             *)
(***************************************************************************)
Pos == getState(G)

LegalNow == getLegalMoves(G, currentPlayer)

\* Every text of the games of a book, and the malformed ones.
BookTexts(book) ==
  UNION {{gm[i] : i \in 1..Len(gm)} : gm \in book} \cup Malformed

Squares == (0..7) \X (0..7)

\* The engine never looks for a king that is not on the board.
KingsPresent ==
  /\ hasKing(G, WHITE)
  /\ hasKing(G, BLACK)

\* C1: whenever the undo stack is not empty, undo() followed at once by
\* redo() gives back the same Position: every square's type, color and
\* hasMoved flag, the side to move, the en-passant target, the halfmove
\* clock and the repetition counts.
C1_UndoRedoRestores ==
  undoStack # <<>> => getState(redo(undo(G))) = Pos

\* A position several moves deep with an en-passant target pending, reached
\* with moves both behind it (undo stack) and ahead of it (redo stack).
C1_Witness ==
  /\ Len(undoStack) >= 3
  /\ redoStack # <<>>
  /\ enPassantCol # -1

\* C2: a MOVE command answered InvalidMove or IllegalMove leaves the whole
\* engine as it was (board, side, en-passant target, clock, repetition
\* counts, both stacks, log and cursor), the printState after it included.
C2_RejectedMoveChangesNothing ==
  LET moves == LegalNow IN
  \A str \in BookTexts(OpeningBook) :
    moveErrorOn(str, moves) # "" => playMoveOn(G, str, moves) = G

\* Moves made and undone, and both kinds of rejection on offer.
C2_Witness ==
  /\ undoStack # <<>>
  /\ redoStack # <<>>
  /\ history # <<>>
  /\ LET moves == LegalNow IN
     /\ \E str \in BookTexts(OpeningBook) : moveErrorOn(str, moves) = "InvalidMove"
     /\ \E str \in BookTexts(OpeningBook) : moveErrorOn(str, moves) = "IllegalMove"

\* C3: for every move m of getLegalMoves(side to move), en-passant captures
\* and castling moves included, the king of the side that moved is not
\* attacked by the opponent in the position makeMove(m) produces.
C3_LegalMovesKeepOwnKingSafe ==
  LET moves == LegalNow IN
  \A i \in 1..Len(moves) :
    ~isInCheck(makeMove(G, moves[i]), currentPlayer)

\* C4: when a MOVE command names a pawn move onto the farthest rank with a
\* promotion letter q, r, b or n and the move is made, the destination
\* square holds a piece of the type the letter names, of the mover's color.
C4_PromotionLetterHonoured ==
  LET moves == LegalNow IN
  \A str \in BookTexts(PromoBook) :
    LET u == parseMove(str).move IN
    (/\ Len(str) = 5
     /\ u.promotion # EMPTY
     /\ moveErrorOn(str, moves) = ""
     /\ board[u.fromRow][u.fromCol].type = PAWN
     /\ u.toRow = (IF currentPlayer = WHITE THEN 0 ELSE 7))
      => LET after == playMoveOn(G, str, moves).board[u.toRow][u.toCol]
         IN after.type = u.promotion /\ after.color = currentPlayer

\* The piece of board b on (r, c) attacks (tr, tc), by the rules of chess: a
\* pawn the two squares diagonally ahead of it, a knight and a king by their
\* steps, a bishop, rook or queen along a line with nothing in between.
Attacks(b, r, c, tr, tc) ==
  LET p == b[r][c]
      dr == tr - r
      dc == tc - c
      between == {k \in 1..7 : k < Max(Abs(dr), Abs(dc))}
      open == \A k \in between : b[r + k * Sign(dr)][c + k * Sign(dc)].type = EMPTY
      onDiagonal == Abs(dr) = Abs(dc) /\ dr # 0
      onLine == (dr = 0) # (dc = 0)
  IN CASE p.type = PAWN ->
            dr = (IF p.color = WHITE THEN -1 ELSE 1) /\ Abs(dc) = 1
       [] p.type = KNIGHT -> {Abs(dr), Abs(dc)} = {1, 2}
       [] p.type = KING -> Max(Abs(dr), Abs(dc)) = 1
       [] p.type = BISHOP -> onDiagonal /\ open
       [] p.type = ROOK -> onLine /\ open
       [] p.type = QUEEN -> (onDiagonal \/ onLine) /\ open
       [] OTHER -> FALSE

AttackedBy(tr, tc, by) ==
  \E sq \in Squares :
    board[sq[1]][sq[2]].color = by /\ Attacks(board, sq[1], sq[2], tr, tc)

\* The boards of the current line of play, from the initial one to the
\* present one.
LineBoards ==
  [i \in 1..(Len(undoStack) + 1) |->
     IF i <= Len(undoStack) THEN undoStack[i].board ELSE board]

HomeRow(c) == IF c = WHITE THEN 7 ELSE 0

\* At some point of the current line the piece of type t and color c was
\* not on its home square in column col: it has moved, or it is gone.
EverOff(c, col, t) ==
  \E i \in 1..Len(LineBoards) :
    LET q == LineBoards[i][HomeRow(c)][col]
    IN ~(q.type = t /\ q.color = c)

\* Castling of color c towards the rook of column rookCol is ruled out.
CastlingForbidden(c, rookCol) ==
  LET step == IF rookCol = 7 THEN 1 ELSE -1 IN
  \/ EverOff(c, 4, KING)
  \/ EverOff(c, rookCol, ROOK)
  \/ \E k \in 1..6 :
       (k - 4) * step > 0 /\ board[HomeRow(c)][k].type # EMPTY
  \/ \E k \in {4, 4 + step, 4 + 2 * step} :
       AttackedBy(HomeRow(c), k, opponent(c))

\* C5: getLegalMoves(color) holds no move of the king by two columns
\* towards a rook if the king has ever moved, if that rook has ever moved or
\* is absent, if a square between king and rook is occupied, or if the
\* king's square, the square it passes over or its destination is attacked
\* by the opponent.
C5_NoCastlingWhenForbidden ==
  \A c \in {WHITE, BLACK} :
    LET moves == getLegalMoves(G, c) IN
    \A rookCol \in {0, 7} :
      CastlingForbidden(c, rookCol) =>
        ~\E i \in 1..Len(moves) :
           /\ board[moves[i].fromRow][moves[i].fromCol].type = KING
           /\ moves[i].toCol - moves[i].fromCol = (IF rookCol = 7 THEN 2 ELSE -2)

\* 5...Ba6 has been played: white's king and king's rook have not moved, f1
\* and g1 are empty, neither e1 nor g1 is attacked, but f1 is, and white has
\* no castling move.
C5_Witness ==
  /\ line = SubSeq(ThroughF1, 1, 10)
  /\ currentPlayer = WHITE
  /\ ~EverOff(WHITE, 4, KING) /\ ~EverOff(WHITE, 7, ROOK)
  /\ board[7][5] = NoPiece /\ board[7][6] = NoPiece
  /\ ~AttackedBy(7, 4, BLACK) /\ ~AttackedBy(7, 6, BLACK)
  /\ AttackedBy(7, 5, BLACK)
  /\ LET moves == LegalNow IN \A i \in 1..Len(moves) : ~moves[i].isCastling

\* C6: making a legal move tagged isEnPassant empties the origin, puts the
\* capturing pawn on the destination and removes the enemy pawn on the
\* origin rank in the destination's column; every other square keeps its
\* piece.  After 1.e4 f5 2.e5 d5 the only such move of white is e5xd6, and
\* making it empties d5.
C6_EnPassantRemovesThePawnBehind ==
  LET moves == LegalNow IN
  /\ \A i \in 1..Len(moves) :
       LET m == moves[i]
           after == makeMove(G, m).board
       IN m.isEnPassant =>
            /\ board[m.fromRow][m.toCol].type = PAWN
            /\ board[m.fromRow][m.toCol].color = opponent(currentPlayer)
            /\ after[m.fromRow][m.toCol] = NoPiece
            /\ after[m.fromRow][m.fromCol] = NoPiece
            /\ after[m.toRow][m.toCol].type = PAWN
            /\ after[m.toRow][m.toCol].color = currentPlayer
            /\ \A sq \in Squares :
                 sq \notin {<<m.fromRow, m.fromCol>>, <<m.toRow, m.toCol>>,
                            <<m.fromRow, m.toCol>>}
                   => after[sq[1]][sq[2]] = board[sq[1]][sq[2]]
  /\ line = SubSeq(EnPassantLine, 1, 4) =>
       LET eps == {i \in 1..Len(moves) : moves[i].isEnPassant} IN
       /\ Cardinality(eps) = 1
       /\ \A i \in eps :
            /\ <<moves[i].fromRow, moves[i].fromCol>> = <<3, 4>>
            /\ <<moves[i].toRow, moves[i].toCol>> = <<2, 3>>
            /\ makeMove(G, moves[i]).board[3][3] = NoPiece

\* 3.exd6 has been made: the white pawn stands on d6, d5 and e5 are empty
\* and the black pawn of f5 is still there.
C6_Witness ==
  /\ line = SubSeq(EnPassantLine, 1, 5)
  /\ history[Len(history)].isEnPassant
  /\ board[2][3].type = PAWN /\ board[2][3].color = WHITE
  /\ board[3][3] = NoPiece /\ board[3][4] = NoPiece
  /\ board[3][5].type = PAWN

\* The last move of the current line was a pawn's two-square advance in
\* column c: read off the snapshot under the current position, not off the
\* engine's en-passant fields.
DoubleStepIn(c) ==
  /\ undoStack # <<>>
  /\ LET prev == undoStack[Len(undoStack)]
         home == IF prev.currentPlayer = WHITE THEN 6 ELSE 1
         land == IF prev.currentPlayer = WHITE THEN 4 ELSE 3
     IN /\ prev.board[home][c].type = PAWN
        /\ prev.board[home][c].color = prev.currentPlayer
        /\ prev.board[land][c].type = EMPTY
        /\ board[home][c].type = EMPTY
        /\ board[land][c].type = PAWN
        /\ board[land][c].color = prev.currentPlayer

\* C7: the en-passant target is set exactly when the move that produced
\* the current position was a pawn's two-square advance, and a legal move
\* is tagged isEnPassant only then, and only to capture that pawn.
C7_EnPassantOnlyRightAfterDoubleStep ==
  LET moves == LegalNow IN
  /\ (enPassantCol # -1) <=> (\E c \in 0..7 : DoubleStepIn(c))
  /\ enPassantCol # -1 => DoubleStepIn(enPassantCol)
  /\ \A i \in 1..Len(moves) :
       moves[i].isEnPassant =>
         /\ DoubleStepIn(moves[i].toCol)
         /\ moves[i].fromRow = (IF currentPlayer = WHITE THEN 3 ELSE 4)
         /\ Abs(moves[i].toCol - moves[i].fromCol) = 1

\* 1.e4 f5 2.e5 d5 3.Nf3 Nf6: the pawns of e5 and d5 still stand side by
\* side, one move too late: no target is set and no legal move is tagged.
C7_Witness ==
  /\ line = SubSeq(LateCapture, 1, 6)
  /\ board[3][4].type = PAWN /\ board[3][4].color = WHITE
  /\ board[3][3].type = PAWN /\ board[3][3].color = BLACK
  /\ enPassantCol = -1
  /\ LET moves == LegalNow IN \A i \in 1..Len(moves) : ~moves[i].isEnPassant

\* The count kept for the key of the current position.
KeyCount == count(positionCount, getPositionKey(G))

\* Kings apart, the board holds nothing but at most one bishop or knight.
BareMaterial ==
  LET others == {sq \in Squares : board[sq[1]][sq[2]].type \notin {EMPTY, KING}}
  IN /\ \A sq \in others : board[sq[1]][sq[2]].type \in {BISHOP, KNIGHT}
     /\ Cardinality(others) <= 1

\* The king of the side to move stands on a square the opponent attacks.
InCheckNow ==
  \E sq \in Squares :
    /\ board[sq[1]][sq[2]].type = KING
    /\ board[sq[1]][sq[2]].color = currentPlayer
    /\ AttackedBy(sq[1], sq[2], opponent(currentPlayer))

\* C8: getGameStatus answers by the first of these that applies: threefold
\* repetition when the count of the current key is at least 3, the 50-move
\* rule when the clock is at least 100, insufficient material, and only
\* then checkmate, stalemate, check or active; a draw is answered even when
\* the side to move has no legal move.
C8_StatusOrder ==
  getGameStatus(G) =
    (IF KeyCount >= 3 THEN "draw (threefold repetition)"
     ELSE IF halfMoveClock >= 100 THEN "draw (50-move rule)"
     ELSE IF BareMaterial THEN "draw (insufficient material)"
     ELSE IF LegalNow = <<>> /\ InCheckNow THEN "checkmate"
     ELSE IF LegalNow = <<>> THEN "stalemate"
     ELSE IF InCheckNow THEN "check"
     ELSE "active")

\* The end of QuietMate: white is mated with the clock past 100 and the
\* status is the 50-move draw.
C8_Witness ==
  /\ line = QuietMate
  /\ halfMoveClock >= 100
  /\ KeyCount < 3
  /\ LegalNow = <<>>
  /\ InCheckNow
  /\ getGameStatus(G) = "draw (50-move rule)"

\* The sides to move along the current line, as LineBoards gives the boards.
LineSides ==
  [i \in 1..(Len(undoStack) + 1) |->
     IF i <= Len(undoStack) THEN undoStack[i].currentPlayer ELSE currentPlayer]

\* How many positions of the current line, the initial one and the present
\* one included, show the same piece type and color on every square and the
\* same side to move as the present one.
Occurrences ==
  Cardinality({i \in 1..Len(LineBoards) :
     /\ LineSides[i] = currentPlayer
     /\ \A sq \in Squares :
          /\ LineBoards[i][sq[1]][sq[2]].type = board[sq[1]][sq[2]].type
          /\ LineBoards[i][sq[1]][sq[2]].color = board[sq[1]][sq[2]].color})

\* C9: the count kept for the key of the current position is the number of
\* times a position with that key occurs on the current line of play; the
\* status is the threefold draw exactly when there are three or more, and
\* undoing the last move leaves one occurrence less counted for that key.
C9_CountIsOccurrencesOnTheLine ==
  /\ KeyCount = Occurrences
  /\ (getGameStatus(G) = "draw (threefold repetition)") <=> (Occurrences >= 3)
  /\ undoStack # <<>> =>
       count(undo(G).positionCount, getPositionKey(G)) = Occurrences - 1

\* The initial position is there for the third time, on a line that was
\* taken up again after an UNDO (the log is longer than the line): the
\* status is the draw, and after undo it is not.
C9_Witness ==
  /\ Len(line) = 8
  /\ Len(history) > Len(undoStack)
  /\ Occurrences = 3
  /\ getGameStatus(G) = "draw (threefold repetition)"
  /\ getGameStatus(undo(G)) # "draw (threefold repetition)"

\* The squares that hold a piece other than a king.
OtherPieces == {sq \in Squares : board[sq[1]][sq[2]].type \notin {EMPTY, KING}}

\* Kings apart, the board holds exactly n pieces, all of type t and of one
\* color.
OnlyLeft(n, t) ==
  /\ Cardinality(OtherPieces) = n
  /\ \A sq \in OtherPieces : board[sq[1]][sq[2]].type = t
  /\ \A a \in OtherPieces : \A b \in OtherPieces :
       board[a[1]][a[2]].color = board[b[1]][b[2]].color

\* C11: insufficientMaterial holds exactly when, kings apart, the board has
\* no pawn, rook or queen and at most one bishop or knight.  King and
\* bishop against king and king and knight against king are reported as
\* draw by insufficient material when no earlier draw applies; king and two
\* bishops against king is not.
C11_InsufficientMaterial ==
  /\ insufficientMaterial(G) <=> BareMaterial
  /\ ((OnlyLeft(1, BISHOP) \/ OnlyLeft(1, KNIGHT))
        /\ KeyCount < 3 /\ halfMoveClock < 100)
       => getGameStatus(G) = "draw (insufficient material)"
  /\ OnlyLeft(2, BISHOP) =>
       /\ ~insufficientMaterial(G)
       /\ getGameStatus(G) # "draw (insufficient material)"

\* The end of KnightLeft: two kings and a white knight, reported as a draw.
C11_Witness ==
  /\ line = KnightLeft
  /\ OnlyLeft(1, KNIGHT)
  /\ insufficientMaterial(G)
  /\ getGameStatus(G) = "draw (insufficient material)"

\* C10: after 1.f3 e5 2.g4 Qh4 white is to move, has no legal move, the
\* status is checkmate, and every MOVE text that parses is answered
\* IllegalMove.
C10_FoolsMate ==
  line = SubSeq(FoolsMate, 1, 4) =>
    /\ currentPlayer = WHITE
    /\ getLegalMoves(G, WHITE) = <<>>
    /\ getGameStatus(G) = "checkmate"
    /\ LET moves == LegalNow IN
       \A str \in BookTexts(OpeningBook) :
         parseMove(str).ok => moveErrorOn(str, moves) = "IllegalMove"

C10_Witness ==
  /\ line = SubSeq(FoolsMate, 1, 4)
  /\ board[4][7].type = QUEEN /\ board[4][7].color = BLACK
  /\ isInCheck(G, WHITE)

\* The number of leaves of the tree of legal moves of depth d below g: every
\* move of getLegalMoves(side to move) is made, and so on from the engine it
\* gives.
RECURSIVE Perft(_, _)
Perft(g, d) ==
  IF d = 0 THEN 1
  ELSE LET moves == getLegalMoves(g, g.currentPlayer)
           leaves == [i \in 1..Len(moves) |-> Perft(makeMove(g, moves[i]), d - 1)]
           sum[i \in 0..Len(moves)] ==
             IF i = 0 THEN 0 ELSE sum[i - 1] + leaves[i]
       IN sum[Len(moves)]

\* C12: from the standard starting position getLegalMoves(WHITE) has 20
\* entries and the move tree has 20 leaves at depth 1, 400 at depth 2 and
\* 8902 at depth 3.
C12_PerftFromTheStart ==
  (board = setupBoard /\ currentPlayer = WHITE /\ undoStack = <<>>) =>
    /\ Len(getLegalMoves(G, WHITE)) = 20
    /\ Perft(G, 1) = 20
    /\ Perft(G, 2) = 400
    /\ Perft(G, 3) = 8902

\* The starting position, before any command and again after moves were
\* made and taken back.
C12_Witness ==
  /\ board = setupBoard /\ currentPlayer = WHITE /\ undoStack = <<>>
  /\ redoStack # <<>>
  /\ Len(LegalNow) = 20


\* C13: a step that makes a move (the log grows) puts the Position it
\* started from on top of the undo stack and leaves the redo stack empty, so
\* that redo() in the state reached changes nothing at all: no move undone
\* before it can be redone.
C13_MakeMoveClearsRedo ==
  [][Len(history') > Len(history) =>
       /\ undoStack' = Append(undoStack, Pos)
       /\ redoStack' = <<>>
       /\ redo(G') = G']_vars

\* A move has just been made after an UNDO: the log is longer than the line
\* of play, its last entry is the current one, and nothing is left to redo.
C13_Witness ==
  /\ Len(history) > Len(undoStack)
  /\ undoStack # <<>>
  /\ historyCurrent = Len(history)
  /\ redoStack = <<>>
  /\ redo(G) = G


\* C14: the cursor of the log is on the entry of the move that produced the
\* current Position, the last move made and not undone, and is unset
\* exactly when the Position is the initial one: the number of entries from
\* the head to the cursor is the depth of the undo stack.
C14_CursorOnTheReachedEntry ==
  /\ historyCurrent = Len(undoStack)
  /\ (historyCurrent = 0) <=> (undoStack = <<>>)
  /\ historyCurrent # 0 =>
       sameSquares(history[historyCurrent], parseMove(line[Len(line)]).move)


\* C15: after a pawn's two-square advance the stored en-passant target
\* (enPassantCol, enPassantRow) is the square the pawn passed over, on the
\* rank between its origin and its destination; after any other move, and
\* before the first, both are -1.
C15_TargetIsThePassedSquare ==
  IF \E c \in 0..7 : DoubleStepIn(c)
  THEN LET mover == undoStack[Len(undoStack)].currentPlayer IN
       /\ DoubleStepIn(enPassantCol)
       /\ enPassantRow = (IF mover = WHITE THEN 5 ELSE 2)
  ELSE enPassantCol = -1 /\ enPassantRow = -1


\* The step from the i-th to the next position of the current line was
\* neither a capture nor a pawn move: as many pieces as before, and every
\* pawn where it was.
QuietStep(i) ==
  LET a == LineBoards[i]
      b == LineBoards[i + 1]
      pieces(x) == {sq \in Squares : x[sq[1]][sq[2]].type # EMPTY}
      pawns(x, c) == {sq \in Squares : x[sq[1]][sq[2]].type = PAWN
                                        /\ x[sq[1]][sq[2]].color = c}
  IN /\ Cardinality(pieces(a)) = Cardinality(pieces(b))
     /\ pawns(a, WHITE) = pawns(b, WHITE)
     /\ pawns(a, BLACK) = pawns(b, BLACK)

\* The number of moves of the current line since the last capture or pawn
\* move.
QuietRun ==
  Cardinality({k \in 1..Len(undoStack) :
                 \A i \in k..Len(undoStack) : QuietStep(i)})

\* C16: the halfmove clock is the number of moves made on the current line
\* since the last pawn move or capture, and makeMove sets it to 0 or adds
\* one by the type of the mover and the occupancy of the destination as
\* they are before the move.
C16_ClockCountsQuietMoves ==
  /\ halfMoveClock = QuietRun
  /\ LET moves == LegalNow IN
     \A i \in 1..Len(moves) :
       makeMove(G, moves[i]).halfMoveClock =
         (IF board[moves[i].fromRow][moves[i].fromCol].type = PAWN
             \/ board[moves[i].toRow][moves[i].toCol].type # EMPTY
          THEN 0 ELSE halfMoveClock + 1)

\* 3.Nf3 Nf6 after pawn moves, on a line taken up again after an UNDO: the
\* clock stands at 2.
C16_Witness ==
  /\ line = SubSeq(LateCapture, 1, 6)
  /\ Len(history) > Len(undoStack)
  /\ halfMoveClock = 2
  /\ QuietRun = 2


\* The moves of a list with the squares of m.
Alike(moves, m) == {i \in 1..Len(moves) : sameSquares(moves[i], m)}

\* C17: for a legal move of a pawn onto row 0 or row 7, by advance or by
\* capture, getLegalMoves holds exactly four moves with those squares, one
\* for each of queen, rook, bishop and knight, and none without a promotion
\* type; every other move of the list has none.
C17_FourPromotionsEach ==
  LET moves == LegalNow IN
  \A i \in 1..Len(moves) :
    LET m == moves[i] IN
    IF board[m.fromRow][m.fromCol].type = PAWN /\ m.toRow \in {0, 7}
    THEN /\ Cardinality(Alike(moves, m)) = 4
         /\ {moves[j].promotion : j \in Alike(moves, m)}
              = {QUEEN, ROOK, BISHOP, KNIGHT}
    ELSE m.promotion = EMPTY

\* After 4...Nf6 the pawn of g7 can advance to g8 and capture on f8 and on
\* h8: twelve promotion moves.
C17_Witness ==
  /\ line = SubSeq(PromoAdvance, 1, 8)
  /\ board[0][6] = NoPiece
  /\ LET moves == LegalNow IN
     /\ Cardinality({i \in 1..Len(moves) : moves[i].promotion # EMPTY}) = 12
     /\ \E i \in 1..Len(moves) :
          moves[i].promotion = KNIGHT /\ moves[i].toCol = moves[i].fromCol
     /\ \E i \in 1..Len(moves) :
          moves[i].promotion = KNIGHT /\ moves[i].toCol # moves[i].fromCol

\* The moves of the side to move that canPieceMoveTo accepts with the check
\* rules on and that, once made, leave the mover's king unattacked.
SafeMoves ==
  {taggedMove(G, currentPlayer, fr[1], fr[2], to[1], to[2]) :
     <<fr, to>> \in
       {ft \in Squares \X Squares :
          /\ board[ft[1][1]][ft[1][2]].color = currentPlayer
          /\ canPieceMoveTo(G, ft[1][1], ft[1][2], ft[2][1], ft[2][2], FALSE)
          /\ ~isInCheck(makeMove(G, taggedMove(G, currentPlayer, ft[1][1],
                                               ft[1][2], ft[2][1], ft[2][2])),
                        currentPlayer)}}

\* C18: getLegalMoves(side to move) holds every move that canPieceMoveTo
\* accepts in full-legality mode and whose application by makeMove leaves
\* the mover's king unattacked, the en-passant capture of a pawn that gives
\* check included; so checkmate or stalemate is never the status while
\* such a move exists.
C18_LegalMovesComplete ==
  LET moves == LegalNow IN
  /\ \A m \in SafeMoves : \E i \in 1..Len(moves) : sameSquares(moves[i], m)
  /\ getGameStatus(G) \in {"checkmate", "stalemate"} => SafeMoves = {}

RECURSIVE isSquareAttackedNesting(_, _, _, _)

\* How deep the calls of isSquareAttacked nest below one call of
\* canPieceMoveTo: none unless the castling branch is entered and finds the
\* rook and the empty squares, and then the probes the && chain evaluates.
canPieceMoveToNesting(s, fr, fc, tr, tc, ignoreCheck) ==
  LET p == s.board[fr][fc]
      q == s.board[tr][tc]
      dr == tr - fr
      dc == tc - fc
      rookCol == IF dc > 0 THEN 7 ELSE 0
      step == IF dc > 0 THEN 1 ELSE -1
      by == opponent(p.color)
  IN
  IF p.type = EMPTY \/ q.color = p.color THEN 0
  ELSE IF p.type # KING \/ (Abs(dr) <= 1 /\ Abs(dc) <= 1) THEN 0
  ELSE IF ~(~ignoreCheck /\ dr = 0 /\ Abs(dc) = 2 /\ ~p.hasMoved) THEN 0
  ELSE IF ~(s.board[fr][rookCol].type = ROOK /\ ~s.board[fr][rookCol].hasMoved)
       THEN 0
  ELSE IF \E c \in 0..7 : /\ (c - fc) * step > 0 /\ (rookCol - c) * step > 0
                          /\ s.board[fr][c].type # EMPTY
       THEN 0
  ELSE LET first == isSquareAttackedNesting(s, fr, fc, by)
           second == isSquareAttackedNesting(s, fr, fc + step, by)
           third == isSquareAttackedNesting(s, tr, tc, by)
       IN IF isSquareAttacked(s, fr, fc, by) THEN first
          ELSE IF isSquareAttacked(s, fr, fc + step, by)
               THEN Max(first, second)
          ELSE Max(first, Max(second, third))

\* The pieces of color by that the loops of isSquareAttacked reach, row by
\* row, up to the first one found to attack (tr, tc).
scanned(s, tr, tc, by) ==
  LET own == {e \in Squares : s.board[e[1]][e[2]].color = by}
      hits == {e \in own :
                 IF s.board[e[1]][e[2]].type = PAWN
                 THEN /\ e[1] + (IF by = WHITE THEN -1 ELSE 1) = tr
                      /\ Abs(e[2] - tc) = 1
                 ELSE canPieceMoveTo(s, e[1], e[2], tr, tc, TRUE)}
  IN {sq \in own : \A e \in hits : e[1] * 8 + e[2] >= sq[1] * 8 + sq[2]}

\* isSquareAttacked asking canPieceMoveTo with the check rules on.
isSquareAttackedNestingFull(s, tr, tc, by) ==
  LET under == {canPieceMoveToNesting(s, sq[1], sq[2], tr, tc, FALSE) :
                  sq \in {e \in scanned(s, tr, tc, by) :
                            s.board[e[1]][e[2]].type # PAWN}}
  IN 1 + (IF under = {} THEN 0 ELSE CHOOSE n \in under : \A k \in under : k <= n)

\* How deep the calls of isSquareAttacked nest, this one counted: one more
\* than the deepest under the canPieceMoveTo calls it makes, all of them
\* with ignoreCheck = true, for the pieces of color by other than pawns.
isSquareAttackedNesting(s, tr, tc, by) ==
  LET under == {canPieceMoveToNesting(s, sq[1], sq[2], tr, tc, TRUE) :
                  sq \in {e \in scanned(s, tr, tc, by) :
                            s.board[e[1]][e[2]].type # PAWN}}
  IN 1 + (IF under = {} THEN 0 ELSE CHOOSE n \in under : \A k \in under : k <= n)

\* C19: attack detection does not call itself: for every square and either
\* color, isSquareAttacked asks canPieceMoveTo in raw mode only, where the
\* castling branch is not entered, so no isSquareAttacked call nests under
\* it; and under a canPieceMoveTo call of getLegalMoves the calls of
\* isSquareAttacked nest one deep at most.
C19_AttackDetectionDoesNotNest ==
  /\ \A sq \in Squares : \A by \in {WHITE, BLACK} :
       isSquareAttackedNesting(G, sq[1], sq[2], by) = 1
  /\ \A fr \in Squares : \A to \in Squares :
       /\ canPieceMoveToNesting(G, fr[1], fr[2], to[1], to[2], TRUE) = 0
       /\ canPieceMoveToNesting(G, fr[1], fr[2], to[1], to[2], FALSE) <= 1

\* White may castle short: the castling branch is entered for the king of
\* e1 going to g1 and makes its three probes, none of which goes deeper,
\* and a raw-mode question about the same squares enters nothing.
C19_Witness ==
  /\ line = Fianchetto
  /\ canPieceMoveTo(G, 7, 4, 7, 6, FALSE)
  /\ canPieceMoveToNesting(G, 7, 4, 7, 6, FALSE) = 1
  /\ canPieceMoveToNesting(G, 7, 4, 7, 6, TRUE) = 0
  /\ isSquareAttackedNesting(G, 7, 6, WHITE) = 1

\* C20: for every legal move m of the side to move, makeMove(m) followed at
\* once by undo() gives back the Position as it was (every square's type,
\* color and hasMoved flag, the side to move, the en-passant target, the
\* halfmove clock and the repetition counts) and the undo stack as it was.
C20_MakeMoveUndoRestores ==
  LET moves == LegalNow IN
  \A i \in 1..Len(moves) :
    LET g2 == undo(makeMove(G, moves[i])) IN
    /\ getState(g2) = Pos
    /\ g2.undoStack = undoStack

\* Several moves deep and with moves undone, an en-passant capture is on
\* offer: making it empties the square of the pawn it takes and undo puts
\* that pawn back; a quiet move of a piece is on offer too.
C20_Witness ==
  LET moves == LegalNow IN
  /\ Len(undoStack) >= 3
  /\ redoStack # <<>>
  /\ \E i \in 1..Len(moves) :
       LET m == moves[i]
           g1 == makeMove(G, m)
       IN /\ m.isEnPassant
          /\ board[m.fromRow][m.toCol].type = PAWN
          /\ g1.board[m.fromRow][m.toCol] = NoPiece
          /\ g1.redoStack = <<>>
          /\ undo(g1).board = board
  /\ \E i \in 1..Len(moves) :
       /\ board[moves[i].fromRow][moves[i].fromCol].type # PAWN
       /\ board[moves[i].toRow][moves[i].toCol].type = EMPTY


====
